---- MODULE Spec2Model ----
(***************************************************************************)
(* webdriverless: the WebDriver BiDi execution core (webdriverbidi.py).    *)
(* One execute call opens a websocket, negotiates session.new, invokes one *)
(* method, negotiates session.end and closes the websocket.  The remote    *)
(* end (the browser) is the environment: it answers commands with frames   *)
(* of its choosing, may emit unsolicited frames, and may drop the          *)
(* connection.                                                             *)
(***************************************************************************)
EXTENDS Integers, Sequences, FiniteSets, TLC

VARIABLES
    pc,       \* pc[c]: where call c of execute stands
    args,     \* args[c]: the (method, params) the call was made with
    ws,       \* ws[c]: the client side of the call's websocket
    peer,     \* peer[c]: the remote side of the call's websocket
    sent,     \* sent[c]: the text frames ws.send has written, in order
    answered, \* answered[c]: how many of them the peer has answered
    inbox,    \* inbox[c]: frames from the peer that ws.recv has not taken yet
    got,      \* got[c]: the frames ws.recv has returned, in order
    pending,  \* pending[c]: the outcome travelling out of the with blocks
    result,   \* result[c]: what execute returned or raised
    closes,   \* closes[c]: how many times the websocket was closed
    log,      \* log[c]: the records logging.error has emitted
    trace,    \* trace[c]: the events of the call, in order
    strays,   \* strays[c]: how many unsolicited frames the peer has emitted
    wrap      \* wrap[c]: the Tab or Browser method that made call c, if any

vars == <<pc, args, ws, peer, sent, answered, inbox, got, pending, result,
          closes, log, trace, strays, wrap>>

(* The peer emits at most this many unsolicited frames on one connection. *)
MaxStray == 1

(***************************************************************************)
(* Python values.  None, str, int, dict (a function from keys to values)   *)
(* and list, each tagged with its type.                                    *)
(***************************************************************************)
None == [t |-> "None"]
Str(s) == [t |-> "str", s |-> s]
PyInt(i) == [t |-> "int", i |-> i]
Dict(m) == [t |-> "dict", m |-> m]
List(n) == [t |-> "list", n |-> n]
PyList(items) == [t |-> "list", n |-> Len(items), items |-> items]
PyBool(b) == [t |-> "bool", b |-> b]
EmptyMap == [k \in {} |-> None]

(* bool(v): None, "", 0, {} and [] are false. *)
Truthy(v) ==
    CASE v.t = "None" -> FALSE
      [] v.t = "str"  -> v.s # ""
      [] v.t = "int"  -> v.i # 0
      [] v.t = "dict" -> DOMAIN v.m # {}
      [] v.t = "list" -> v.n # 0
      [] v.t = "bool" -> v.b

(* The outcome of evaluating an expression: a value, or an exception. *)
Ret(v) == [k |-> "ret", v |-> v]
Raise(e) == [k |-> "raise", e |-> e]
Running == [k |-> "running"]

(* v[key] *)
Subscript(v, key) ==
    IF v.t = "dict"
    THEN IF key \in DOMAIN v.m THEN Ret(v.m[key]) ELSE Raise("KeyError")
    ELSE Raise("TypeError")

(* dict.get(key): the value, or None when the key is missing. *)
Get(d, key) == IF key \in DOMAIN d.m THEN d.m[key] ELSE None

(***************************************************************************)
(* Text frames.  A frame is the empty string, a text that is not JSON, or  *)
(* the JSON text of a value.                                               *)
(***************************************************************************)
TextEmpty == [form |-> "empty"]
TextInvalid == [form |-> "invalid"]

json_dumps(v) == [form |-> "json", v |-> v]

json_loads(text) ==
    IF text.form = "json" THEN Ret(text.v) ELSE Raise("JSONDecodeError")

TextTruthy(text) == text.form # "empty"

(***************************************************************************)
(* webdriverbidi.py: the command codec.                                    *)
(***************************************************************************)
(* _make_command violated: the identifier varies with the method. *)
_make_command_by_method(method, params) ==
    Dict([id |-> PyInt(IF method = "session.new" THEN 2 ELSE 1),
          method |-> Str(method),
          params |-> IF Truthy(params) THEN params ELSE Dict(EmptyMap)])

(* _make_command violated: the parameters are dropped. *)
_make_command_no_params(method, params) ==
    Dict([id |-> PyInt(1), method |-> Str(method), params |-> Dict(EmptyMap)])

_make_command(method, params) ==
    Dict([id |-> PyInt(1),
          method |-> Str(method),
          params |-> IF Truthy(params) THEN params ELSE Dict(EmptyMap)])

(* _send_command, line 19: the frame handed to ws.send. *)
_send_command_frame(method, params) == json_dumps(_make_command(method, params))

(* _send_command violated: an empty success payload is taken for absence. *)
_send_command_decode_truthy(response) ==
    IF ~TextTruthy(response) THEN Ret(None)
    ELSE LET d == json_loads(response) IN
         IF d.k = "raise" THEN d
         ELSE IF d.v.t # "dict" THEN Raise("AttributeError")
         ELSE IF Get(d.v, "type") = Str("success")
              THEN IF Truthy(Get(d.v, "result")) THEN Ret(d.v.m["result"])
                   ELSE Ret(None)
         ELSE IF Get(d.v, "type") = Str("error")
              THEN IF {"error", "message"} \subseteq DOMAIN d.v.m
                   THEN Ret(None) ELSE Raise("KeyError")
         ELSE Ret(None)

(* _send_command, lines 20-26: what the call makes of the frame ws.recv  *)
(* returned.  data.get fails on a JSON value that is no object; data[..] *)
(* fails on a missing key.                                               *)
_send_command_decode(response) ==
    IF ~TextTruthy(response) THEN Ret(None)
    ELSE LET d == json_loads(response) IN
         IF d.k = "raise" THEN d
         ELSE IF d.v.t # "dict" THEN Raise("AttributeError")
         ELSE IF Get(d.v, "type") = Str("success")
              THEN Subscript(d.v, "result")
         ELSE IF Get(d.v, "type") = Str("error")
              THEN IF {"error", "message"} \subseteq DOMAIN d.v.m
                   THEN Ret(None) ELSE Raise("KeyError")
         ELSE Ret(None)

(* _send_command, line 25: the records logging.error emits for the frame. *)
_send_command_log(response) ==
    IF ~TextTruthy(response) THEN <<>>
    ELSE LET d == json_loads(response) IN
         IF d.k = "raise" \/ d.v.t # "dict" THEN <<>>
         ELSE IF /\ Get(d.v, "type") = Str("error")
                 /\ {"error", "message"} \subseteq DOMAIN d.v.m
              THEN << <<d.v.m["error"], d.v.m["message"]>> >>
         ELSE <<>>

(***************************************************************************)
(* webdriverbidi.py: Session.  Each operator takes the outcome r of the    *)
(* _send_command call the method makes.                                    *)
(***************************************************************************)
(* Session._new violated: a missing session identifier is defaulted. *)
Session_new_default(r) ==
    IF r.k = "raise" THEN r
    ELSE IF Truthy(r.v) THEN Subscript(r.v, "sessionId")
    ELSE Ret(Str("default"))

Session_new(r) ==
    IF r.k = "raise" THEN r
    ELSE IF Truthy(r.v) THEN Subscript(r.v, "sessionId")
    ELSE Ret(None)

(* Session.__enter__ violated: the assert is missing. *)
Session__enter__unchecked(r) ==
    LET n == Session_new(r) IN IF n.k = "raise" THEN n ELSE Ret(Str("self"))

Session__enter__(r) ==
    LET n == Session_new(r) IN
    IF n.k = "raise" THEN n
    ELSE IF Truthy(n.v) THEN Ret(Str("self")) ELSE Raise("AssertionError")

Session__call__(r) == r

(* Session._end violated: the reply is tested for truth, not for None. *)
Session_end_truthy(r) == IF r.k = "raise" THEN r ELSE Ret(Truthy(r.v))

Session_end(r) == IF r.k = "raise" THEN r ELSE Ret(r.v # None)

Session__exit__(r) ==
    LET e == Session_end(r) IN
    IF e.k = "raise" THEN e
    ELSE IF e.v THEN Ret(None) ELSE Raise("AssertionError")

(***************************************************************************)
(* The remote end.  It echoes the identifier of the command it answers.    *)
(***************************************************************************)
Results ==
    { Dict(EmptyMap),
      Dict([sessionId |-> Str("s1")]),
      Dict([sessionId |-> Str("")]),
      Dict([url |-> Str("https://x")]),
      None }

(* Results of the methods the Tab and Browser wrappers invoke. *)
WrapResults ==
    { Dict([context |-> Str("ctx-1")]),
      Dict([contexts |-> PyList(<< Dict([context |-> Str("ctx-1"),
                                         url |-> Str("https://x")]) >>)]),
      Dict([result |-> Dict([type |-> Str("null")])]),
      Dict([result |-> Dict([type |-> Str("node")])]) }

Success(id, r) == Dict([type |-> Str("success"), id |-> id, result |-> r])

Envelopes(id) ==
    { Success(id, r) : r \in Results }
    \cup { Dict([type |-> Str("success"), id |-> id]),
           Dict([type |-> Str("error"), id |-> id,
                 error |-> Str("unknown command"), message |-> Str("no")]),
           Dict([type |-> Str("error"), id |-> id,
                 error |-> Str("unknown command")]),
           Dict([type |-> Str("partial"), id |-> id]),
           Dict([id |-> id]) }

(* What the peer may write in answer to a command carrying identifier id. *)
Answers(id) ==
    { TextEmpty, TextInvalid, json_dumps(List(0)) }
    \cup { json_dumps(e) : e \in Envelopes(id) }

(* The same, with the results the wrappers look for. *)
WrapAnswers(id) ==
    Answers(id) \cup { json_dumps(Success(id, r)) : r \in WrapResults }

(* What the peer may write unasked: an event, a reply to nothing sent. *)
Unsolicited ==
    { json_dumps(Dict([type |-> Str("event"), method |-> Str("log.entryAdded"),
                       params |-> Dict(EmptyMap)])),
      json_dumps(Success(PyInt(7), Dict([sessionId |-> Str("s9")]))) }

CommandId(text) == text.v.m["id"]

(* The inputs of execute. *)
Methods == { "browsingContext.navigate", "browsingContext.close" }
Params ==
    { None, Dict(EmptyMap),
      Dict([context |-> Str("abc"), url |-> Str("https://x")]) }

Event(ev, what) == [ev |-> ev, what |-> what]

(***************************************************************************)
(* The state after construction: no call has started.                      *)
(***************************************************************************)
InitCalls(C) ==
    /\ pc = [c \in C |-> "start"]
    /\ args = [c \in C |-> [method |-> "", params |-> None]]
    /\ ws = [c \in C |-> "unopened"]
    /\ peer = [c \in C |-> "up"]
    /\ sent = [c \in C |-> <<>>]
    /\ answered = [c \in C |-> 0]
    /\ inbox = [c \in C |-> <<>>]
    /\ got = [c \in C |-> <<>>]
    /\ pending = [c \in C |-> Ret(None)]
    /\ result = [c \in C |-> Running]
    /\ closes = [c \in C |-> 0]
    /\ log = [c \in C |-> <<>>]
    /\ trace = [c \in C |-> <<>>]
    /\ strays = [c \in C |-> 0]
    /\ wrap = [c \in C |-> [op |-> "none"]]

Init == InitCalls({1})

(***************************************************************************)
(* ws.send and ws.recv.                                                    *)
(***************************************************************************)
(* ws.send(json.dumps(_make_command(method, params))) writes the frame.  It *)
(* may still do so after the peer has dropped, until the client notices.  *)
Send(c, method, params) ==
    /\ ws[c] = "open"
    /\ UNCHANGED ws
    /\ sent' = [sent EXCEPT ![c] = Append(@, _send_command_frame(method, params))]
    /\ trace' = [trace EXCEPT ![c] = Append(@, Event("send", method))]

(* ws.send raises ConnectionClosed: the peer has dropped the connection. *)
SendFails(c) ==
    /\ peer[c] = "dropped"
    /\ ws' = [ws EXCEPT ![c] = "lost"]
    /\ UNCHANGED <<sent, trace>>

(* ws.recv returns the oldest frame not yet taken. *)
(* Recv violated: ws.recv takes the frame at the head of another call's *)
(* connection.                                                         *)
Recv_shared(c, what) ==
    /\ inbox[c] # <<>>
    /\ UNCHANGED ws
    /\ \E d \in DOMAIN inbox :
          /\ inbox[d] # <<>>
          /\ inbox' = [inbox EXCEPT ![d] = Tail(@)]
          /\ got' = [got EXCEPT ![c] = Append(@, Head(inbox[d]))]
    /\ log' = [log EXCEPT ![c] = @ \o _send_command_log(Head(inbox[c]).text)]
    /\ trace' = [trace EXCEPT ![c] = Append(@, Event("recv", what))]

Recv(c, what) ==
    /\ inbox[c] # <<>>
    /\ UNCHANGED ws
    /\ inbox' = [inbox EXCEPT ![c] = Tail(@)]
    /\ got' = [got EXCEPT ![c] = Append(@, Head(inbox[c]))]
    /\ log' = [log EXCEPT ![c] = @ \o _send_command_log(Head(inbox[c]).text)]
    /\ trace' = [trace EXCEPT ![c] = Append(@, Event("recv", what))]

(* RecvFails violated: ws.recv does not notice the drop and blocks on. *)
RecvFails_blocks(c) ==
    /\ inbox[c] = <<>>
    /\ peer[c] = "dropped"
    /\ FALSE
    /\ UNCHANGED <<ws, inbox, got, log, trace>>

(* ws.recv raises ConnectionClosed: nothing is left to take and the peer *)
(* has dropped.                                                         *)
RecvFails(c) ==
    /\ inbox[c] = <<>>
    /\ peer[c] = "dropped"
    /\ ws' = [ws EXCEPT ![c] = "lost"]
    /\ UNCHANGED <<inbox, got, log, trace>>

(***************************************************************************)
(* execute, step by step.                                                  *)
(***************************************************************************)
(* execute_connect violated: a refused connection is passed off as absence. *)
execute_connect_swallows(c, method, params, accepted) ==
    /\ pc[c] = "start"
    /\ args' = [args EXCEPT ![c] = [method |-> method, params |-> params]]
    /\ IF accepted
       THEN /\ ws' = [ws EXCEPT ![c] = "open"]
            /\ trace' = [trace EXCEPT ![c] = Append(@, Event("open", ""))]
            /\ pc' = [pc EXCEPT ![c] = "enter_send"]
            /\ UNCHANGED result
       ELSE /\ result' = [result EXCEPT ![c] = Ret(None)]
            /\ pc' = [pc EXCEPT ![c] = "done"]
            /\ UNCHANGED <<ws, trace>>
    /\ UNCHANGED <<peer, sent, answered, inbox, got, pending, closes, log, strays>>

(* client.connect(...) and the entry of the outer with block. *)
execute_connect(c, method, params, accepted) ==
    /\ pc[c] = "start"
    /\ args' = [args EXCEPT ![c] = [method |-> method, params |-> params]]
    /\ IF accepted
       THEN /\ ws' = [ws EXCEPT ![c] = "open"]
            /\ trace' = [trace EXCEPT ![c] = Append(@, Event("open", ""))]
            /\ pc' = [pc EXCEPT ![c] = "enter_send"]
            /\ UNCHANGED result
       ELSE /\ result' = [result EXCEPT ![c] = Raise("ConnectionRefusedError")]
            /\ pc' = [pc EXCEPT ![c] = "done"]
            /\ UNCHANGED <<ws, trace>>
    /\ UNCHANGED <<peer, sent, answered, inbox, got, pending, closes, log, strays>>

(* Session.__enter__ -> _new -> _send_command: ws.send of session.new. *)
enter_send(c) ==
    /\ pc[c] = "enter_send"
    /\ \/ /\ Send(c, "session.new", Dict([capabilities |-> Dict(EmptyMap)]))
          /\ pc' = [pc EXCEPT ![c] = "enter_recv"]
          /\ UNCHANGED pending
       \/ /\ SendFails(c)
          /\ pending' = [pending EXCEPT ![c] = Raise("ConnectionClosed")]
          /\ pc' = [pc EXCEPT ![c] = "ws_exit"]
    /\ UNCHANGED <<wrap, args, peer, answered, inbox, got, result, closes, log, strays>>

(* Session.__enter__: ws.recv, the decoding and the assert.  A failure *)
(* leaves the outer with block only: Session.__exit__ does not run.    *)
enter_recv(c) ==
    /\ pc[c] = "enter_recv"
    /\ \/ /\ Recv(c, "session.new")
          /\ LET o == Session__enter__(_send_command_decode(Head(inbox[c]).text)) IN
             IF o.k = "raise"
             THEN /\ pending' = [pending EXCEPT ![c] = o]
                  /\ pc' = [pc EXCEPT ![c] = "ws_exit"]
             ELSE /\ pc' = [pc EXCEPT ![c] = "call_send"]
                  /\ UNCHANGED pending
       \/ /\ RecvFails(c)
          /\ pending' = [pending EXCEPT ![c] = Raise("ConnectionClosed")]
          /\ pc' = [pc EXCEPT ![c] = "ws_exit"]
    /\ UNCHANGED <<wrap, args, peer, sent, answered, result, closes, strays>>

(* call_send violated: the method is sent and its reply never awaited. *)
call_send_no_wait(c) ==
    /\ pc[c] = "call_send"
    /\ Send(c, args[c].method, args[c].params)
    /\ pc' = [pc EXCEPT ![c] = "exit_send"]
    /\ UNCHANGED <<wrap, args, peer, answered, inbox, got, pending, result, closes,
                   log, strays>>

(* Session.__call__ -> _send_command: ws.send of the requested method. *)
call_send(c) ==
    /\ pc[c] = "call_send"
    /\ \/ /\ Send(c, args[c].method, args[c].params)
          /\ pc' = [pc EXCEPT ![c] = "call_recv"]
          /\ UNCHANGED pending
       \/ /\ SendFails(c)
          /\ pending' = [pending EXCEPT ![c] = Raise("ConnectionClosed")]
          /\ pc' = [pc EXCEPT ![c] = "exit_send"]
    /\ UNCHANGED <<wrap, args, peer, answered, inbox, got, result, closes, log, strays>>

(* call_recv violated: an exception leaves the block past Session.__exit__. *)
call_recv_unwinds(c) ==
    /\ pc[c] = "call_recv"
    /\ \/ /\ Recv(c, args[c].method)
          /\ LET o == Session__call__(_send_command_decode(Head(inbox[c]).text)) IN
             /\ pending' = [pending EXCEPT ![c] = o]
             /\ pc' = [pc EXCEPT ![c] =
                    IF o.k = "raise" THEN "ws_exit" ELSE "exit_send"]
       \/ /\ RecvFails(c)
          /\ pending' = [pending EXCEPT ![c] = Raise("ConnectionClosed")]
          /\ pc' = [pc EXCEPT ![c] = "exit_send"]
    /\ UNCHANGED <<wrap, args, peer, sent, answered, result, closes, strays>>

(* Session.__call__: ws.recv and the decoding; the value returned or the *)
(* exception raised leaves the inner with block through Session.__exit__. *)
call_recv(c) ==
    /\ pc[c] = "call_recv"
    /\ \/ /\ Recv(c, args[c].method)
          /\ pending' = [pending EXCEPT ![c] =
                 Session__call__(_send_command_decode(Head(inbox[c]).text))]
       \/ /\ RecvFails(c)
          /\ pending' = [pending EXCEPT ![c] = Raise("ConnectionClosed")]
    /\ pc' = [pc EXCEPT ![c] = "exit_send"]
    /\ UNCHANGED <<wrap, args, peer, sent, answered, result, closes, strays>>

(* exit_send violated: the session is left without session.end. *)
exit_send_skipped(c) ==
    /\ pc[c] = "exit_send"
    /\ pc' = [pc EXCEPT ![c] = "ws_exit"]
    /\ UNCHANGED <<wrap, args, ws, peer, sent, answered, inbox, got, pending, result,
                   closes, log, trace, strays>>

(* Session.__exit__ -> _end -> _send_command: ws.send of session.end. *)
exit_send(c) ==
    /\ pc[c] = "exit_send"
    /\ \/ /\ Send(c, "session.end", Dict(EmptyMap))
          /\ pc' = [pc EXCEPT ![c] = "exit_recv"]
          /\ UNCHANGED pending
       \/ /\ SendFails(c)
          /\ pending' = [pending EXCEPT ![c] = Raise("ConnectionClosed")]
          /\ pc' = [pc EXCEPT ![c] = "ws_exit"]
    /\ UNCHANGED <<wrap, args, peer, answered, inbox, got, result, closes, log, strays>>

(* Session.__exit__: ws.recv, the decoding and the assert.  An exception *)
(* raised here replaces the outcome of the block; otherwise the outcome  *)
(* of the block travels on.                                              *)
exit_recv(c) ==
    /\ pc[c] = "exit_recv"
    /\ \/ /\ Recv(c, "session.end")
          /\ LET o == Session__exit__(_send_command_decode(Head(inbox[c]).text)) IN
             pending' = [pending EXCEPT ![c] = IF o.k = "raise" THEN o ELSE @]
       \/ /\ RecvFails(c)
          /\ pending' = [pending EXCEPT ![c] = Raise("ConnectionClosed")]
    /\ pc' = [pc EXCEPT ![c] = "ws_exit"]
    /\ UNCHANGED <<wrap, args, peer, sent, answered, result, closes, strays>>

(* ws_exit violated: an exception leaves the websocket open. *)
ws_exit_leaky(c) ==
    /\ pc[c] = "ws_exit"
    /\ IF pending[c].k = "raise"
       THEN UNCHANGED <<ws, closes, trace>>
       ELSE /\ ws' = [ws EXCEPT ![c] = "closed"]
            /\ closes' = [closes EXCEPT ![c] = @ + 1]
            /\ trace' = [trace EXCEPT ![c] = Append(@, Event("close", ""))]
    /\ result' = [result EXCEPT ![c] = pending[c]]
    /\ pc' = [pc EXCEPT ![c] = "done"]
    /\ UNCHANGED <<wrap, args, peer, sent, answered, inbox, got, pending, log, strays>>

(* The exit of the outer with block closes the websocket; execute then *)
(* returns the value or lets the exception out.                        *)
ws_exit(c) ==
    /\ pc[c] = "ws_exit"
    /\ ws' = [ws EXCEPT ![c] = "closed"]
    /\ closes' = [closes EXCEPT ![c] = @ + 1]
    /\ trace' = [trace EXCEPT ![c] = Append(@, Event("close", ""))]
    /\ result' = [result EXCEPT ![c] = pending[c]]
    /\ pc' = [pc EXCEPT ![c] = "done"]
    /\ UNCHANGED <<wrap, args, peer, sent, answered, inbox, got, pending, log, strays>>

(***************************************************************************)
(* The peer's steps.                                                       *)
(***************************************************************************)
(* The peer answers the oldest command it has not answered yet. *)
PeerAnswer(c, text) ==
    /\ ws[c] = "open"
    /\ peer[c] = "up"
    /\ answered[c] < Len(sent[c])
    /\ text \in WrapAnswers(CommandId(sent[c][answered[c] + 1]))
    /\ inbox' = [inbox EXCEPT ![c] = Append(@, [text |-> text, re |-> answered[c] + 1])]
    /\ answered' = [answered EXCEPT ![c] = @ + 1]
    /\ UNCHANGED <<pc, wrap, args, ws, peer, sent, got, pending, result, closes, log,
                   trace, strays>>

(* The peer writes a frame that answers no command of this connection. *)
PeerEvent(c, text) ==
    /\ ws[c] = "open"
    /\ peer[c] = "up"
    /\ strays[c] < MaxStray
    /\ inbox' = [inbox EXCEPT ![c] = Append(@, [text |-> text, re |-> 0])]
    /\ strays' = [strays EXCEPT ![c] = @ + 1]
    /\ UNCHANGED <<pc, wrap, args, ws, peer, sent, answered, got, pending, result,
                   closes, log, trace>>

(* The peer drops the connection. *)
PeerDrop(c) ==
    /\ ws[c] = "open"
    /\ peer[c] = "up"
    /\ peer' = [peer EXCEPT ![c] = "dropped"]
    /\ UNCHANGED <<pc, wrap, args, ws, sent, answered, inbox, got, pending, result,
                   closes, log, trace, strays>>

AllTexts == Answers(PyInt(1)) \cup Answers(PyInt(2))

Next ==
    \/ \E c \in DOMAIN pc, m \in Methods, p \in Params, a \in BOOLEAN :
           execute_connect(c, m, p, a) /\ UNCHANGED wrap
    \/ \E c \in DOMAIN pc : enter_send(c)
    \/ \E c \in DOMAIN pc : enter_recv(c)
    \/ \E c \in DOMAIN pc : call_send(c)
    \/ \E c \in DOMAIN pc : call_recv(c)
    \/ \E c \in DOMAIN pc : exit_send(c)
    \/ \E c \in DOMAIN pc : exit_recv(c)
    \/ \E c \in DOMAIN pc : ws_exit(c)
    \/ \E c \in DOMAIN pc, t \in AllTexts : PeerAnswer(c, t)
    \/ \E c \in DOMAIN pc, t \in Unsolicited : PeerEvent(c, t)
    \/ \E c \in DOMAIN pc : PeerDrop(c)

Spec == Init /\ [][Next]_vars

(***************************************************************************)
(* tab.py and browser.py: the wrappers.  Each operator takes the Tab (or   *)
(* the Browser's port, carried in a Tab record) and the outcome r of the   *)
(* one execute call the method makes, and gives the Tab afterwards and the *)
(* outcome of the method.                                                  *)
(***************************************************************************)
PyTab(port, id, url) == [t |-> "Tab", port |-> port, id |-> id, url |-> url]

InitialTab == PyTab(PyInt(9222), Str("ctx-1"), Str(""))

Wrapped(tab, out) == [tab |-> tab, out |-> out]

Tab_navigate(tab, r) ==
    IF r.k = "raise" THEN Wrapped(tab, r)
    ELSE IF Truthy(r.v)
         THEN LET u == Subscript(r.v, "url") IN
              IF u.k = "raise" THEN Wrapped(tab, u)
              ELSE Wrapped([tab EXCEPT !.url = u.v], Ret(PyBool(TRUE)))
    ELSE Wrapped(tab, Ret(PyBool(FALSE)))

Tab_reload(tab, r) ==
    IF r.k = "raise" THEN Wrapped(tab, r)
    ELSE IF Truthy(r.v)
         THEN LET u == Subscript(r.v, "url") IN
              IF u.k = "raise" THEN Wrapped(tab, u)
              ELSE Wrapped([tab EXCEPT !.url = u.v], Ret(PyBool(TRUE)))
    ELSE Wrapped(tab, Ret(PyBool(FALSE)))

Tab_close(tab, r) ==
    IF r.k = "raise" THEN Wrapped(tab, r)
    ELSE Wrapped(tab, Ret(PyBool(r.v # None)))

(* response.get("result") or None *)
Tab_evaluate(tab, r) ==
    IF r.k = "raise" THEN Wrapped(tab, r)
    ELSE IF Truthy(r.v)
         THEN IF r.v.t # "dict" THEN Wrapped(tab, Raise("AttributeError"))
              ELSE Wrapped(tab, Ret(IF Truthy(Get(r.v, "result"))
                                    THEN Get(r.v, "result") ELSE None))
    ELSE Wrapped(tab, Ret(None))

Tab_click_element(tab, r) ==
    LET e == Tab_evaluate(tab, r) IN
    IF e.out.k = "raise" THEN e
    ELSE Wrapped(tab, Ret(PyBool(e.out.v # None)))

Tab_focus_element(tab, r) ==
    LET e == Tab_evaluate(tab, r) IN
    IF e.out.k = "raise" THEN e
    ELSE Wrapped(tab, Ret(PyBool(e.out.v # None)))

Tab_is_element_found(tab, r) ==
    LET e == Tab_evaluate(tab, r) IN
    IF e.out.k = "raise" THEN e
    ELSE IF Truthy(e.out.v)
         THEN LET ty == Subscript(e.out.v, "type") IN
              IF ty.k = "raise" THEN Wrapped(tab, ty)
              ELSE Wrapped(tab, Ret(PyBool(ty.v # Str("null"))))
    ELSE Wrapped(tab, Ret(None))

Browser_create_tab(tab, r) ==
    IF r.k = "raise" THEN Wrapped(tab, r)
    ELSE IF Truthy(r.v)
         THEN LET x == Subscript(r.v, "context") IN
              IF x.k = "raise" THEN Wrapped(tab, x)
              ELSE Wrapped(tab, Ret(PyTab(tab.port, x.v, Str(""))))
    ELSE Wrapped(tab, Ret(None))

Browser_get_tabs(tab, r) ==
    IF r.k = "raise" THEN Wrapped(tab, r)
    ELSE IF Truthy(r.v)
         THEN LET cs == Subscript(r.v, "contexts") IN
              IF cs.k = "raise" THEN Wrapped(tab, cs)
              ELSE IF cs.v.t # "list" THEN Wrapped(tab, Raise("TypeError"))
              ELSE IF \E i \in 1..cs.v.n :
                         ~({"context", "url"} \subseteq DOMAIN cs.v.items[i].m)
                   THEN Wrapped(tab, Raise("KeyError"))
              ELSE Wrapped(tab, Ret(PyList(
                       [i \in 1..cs.v.n |->
                           PyTab(tab.port, cs.v.items[i].m["context"],
                                 cs.v.items[i].m["url"])])))
    ELSE Wrapped(tab, Ret(PyList(<<>>)))

WrapOps ==
    { "navigate", "reload", "close", "evaluate", "click_element",
      "focus_element", "is_element_found", "create_tab", "get_tabs" }

EvaluateOps == { "evaluate", "click_element", "focus_element", "is_element_found" }

(* The method each wrapper passes to execute. *)
WrapMethod(op) ==
    CASE op = "navigate"   -> "browsingContext.navigate"
      [] op = "reload"     -> "browsingContext.reload"
      [] op = "close"      -> "browsingContext.close"
      [] op = "create_tab" -> "browsingContext.create"
      [] op = "get_tabs"   -> "browsingContext.getTree"
      [] op \in EvaluateOps -> "script.evaluate"

(* The script of each evaluate-based wrapper, for the query q. *)
WrapScript(op) ==
    CASE op = "click_element" -> " q.click() "
      [] op = "focus_element" -> " q.focus() "
      [] OTHER -> "q"

(* The parameters each wrapper passes to execute. *)
WrapParams(op, tab) ==
    CASE op = "navigate" ->
             Dict([url |-> Str("https://example.com"), context |-> tab.id,
                   wait |-> Str("complete")])
      [] op = "reload" -> Dict([context |-> tab.id, wait |-> Str("complete")])
      [] op = "close" -> Dict([context |-> tab.id])
      [] op = "create_tab" -> Dict([type |-> Str("tab")])
      [] op = "get_tabs" -> Dict([maxDepth |-> PyInt(1)])
      [] op \in EvaluateOps ->
             Dict([expression |-> Str(WrapScript(op)),
                   target |-> Dict([context |-> tab.id]),
                   awaitPromise |-> PyBool(TRUE)])

(* What each wrapper makes of the outcome of its execute call. *)
WrapOutcome(op, tab, r) ==
    CASE op = "navigate"         -> Tab_navigate(tab, r)
      [] op = "reload"           -> Tab_reload(tab, r)
      [] op = "close"            -> Tab_close(tab, r)
      [] op = "evaluate"         -> Tab_evaluate(tab, r)
      [] op = "click_element"    -> Tab_click_element(tab, r)
      [] op = "focus_element"    -> Tab_focus_element(tab, r)
      [] op = "is_element_found" -> Tab_is_element_found(tab, r)
      [] op = "create_tab"       -> Browser_create_tab(tab, r)
      [] op = "get_tabs"         -> Browser_get_tabs(tab, r)

(* A wrapper is called on a Tab and calls execute. *)
wrapper_call(c, op, accepted) ==
    /\ wrap[c].op = "none"
    /\ execute_connect(c, WrapMethod(op), WrapParams(op, InitialTab), accepted)
    /\ wrap' = [wrap EXCEPT ![c] =
           [op |-> op, before |-> InitialTab, tab |-> InitialTab,
            executes |-> 1, out |-> Running]]

(* execute has returned or raised; the wrapper does the same. *)
wrapper_return(c) ==
    /\ pc[c] = "done"
    /\ wrap[c].op # "none"
    /\ wrap[c].out = Running
    /\ LET w == WrapOutcome(wrap[c].op, wrap[c].tab, result[c]) IN
       wrap' = [wrap EXCEPT ![c].tab = w.tab, ![c].out = w.out]
    /\ UNCHANGED <<pc, args, ws, peer, sent, answered, inbox, got, pending,
                   result, closes, log, trace, strays>>

WrapTexts == WrapAnswers(PyInt(1))

(* The wrappers over execute, with a peer that writes nothing unasked. *)
NextWrap ==
    \/ \E c \in DOMAIN pc, op \in WrapOps, a \in BOOLEAN : wrapper_call(c, op, a)
    \/ \E c \in DOMAIN pc : enter_send(c)
    \/ \E c \in DOMAIN pc : enter_recv(c)
    \/ \E c \in DOMAIN pc : call_send(c)
    \/ \E c \in DOMAIN pc : call_recv(c)
    \/ \E c \in DOMAIN pc : exit_send(c)
    \/ \E c \in DOMAIN pc : exit_recv(c)
    \/ \E c \in DOMAIN pc : ws_exit(c)
    \/ \E c \in DOMAIN pc : wrapper_return(c)
    \/ \E c \in DOMAIN pc, t \in WrapTexts : PeerAnswer(c, t)
    \/ \E c \in DOMAIN pc : PeerDrop(c)

SpecWrap == Init /\ [][NextWrap]_vars

(***************************************************************************)
(* Concurrent callers: two execute calls, each with its own websocket,     *)
(* interleaved step by step.                                               *)
(***************************************************************************)
PairCalls == {1, 2}

PairMethods == { "browsingContext.navigate", "browsingContext.close" }

PairTexts ==
    { json_dumps(Success(PyInt(1), r)) :
          r \in { Dict([sessionId |-> Str("s1")]), Dict([url |-> Str("https://x")]),
                  Dict(EmptyMap) } }
        \cup { TextEmpty }

NextPair ==
    \/ \E c \in DOMAIN pc, m \in PairMethods, a \in BOOLEAN :
           execute_connect(c, m, None, a) /\ UNCHANGED wrap
    \/ \E c \in DOMAIN pc : enter_send(c)
    \/ \E c \in DOMAIN pc : enter_recv(c)
    \/ \E c \in DOMAIN pc : call_send(c)
    \/ \E c \in DOMAIN pc : call_recv(c)
    \/ \E c \in DOMAIN pc : exit_send(c)
    \/ \E c \in DOMAIN pc : exit_recv(c)
    \/ \E c \in DOMAIN pc : ws_exit(c)
    \/ \E c \in DOMAIN pc, t \in PairTexts : PeerAnswer(c, t)
    \/ \E c \in DOMAIN pc : PeerDrop(c)

SpecPair == InitCalls(PairCalls) /\ [][NextPair]_vars

(***************************************************************************)
(* Progress.  execute is straight-line code, so a call that can take its   *)
(* next step takes it; the peer, for its part, is taken to answer the      *)
(* oldest unanswered command or to drop the connection.                    *)
(***************************************************************************)
LiveCalls == {1}

Client(c) ==
    \/ enter_send(c) \/ enter_recv(c)
    \/ call_send(c) \/ call_recv(c)
    \/ exit_send(c) \/ exit_recv(c)
    \/ ws_exit(c)

PeerResponds(c) == (\E t \in AllTexts : PeerAnswer(c, t)) \/ PeerDrop(c)

(* The steps of Next for one choice of the inputs of execute: progress does *)
(* not depend on the method or its parameters.                             *)
NextLive ==
    \/ \E c \in DOMAIN pc, a \in BOOLEAN :
           execute_connect(c, "browsingContext.navigate", None, a) /\ UNCHANGED wrap
    \/ \E c \in DOMAIN pc : enter_send(c)
    \/ \E c \in DOMAIN pc : enter_recv(c)
    \/ \E c \in DOMAIN pc : call_send(c)
    \/ \E c \in DOMAIN pc : call_recv(c)
    \/ \E c \in DOMAIN pc : exit_send(c)
    \/ \E c \in DOMAIN pc : exit_recv(c)
    \/ \E c \in DOMAIN pc : ws_exit(c)
    \/ \E c \in DOMAIN pc, t \in AllTexts : PeerAnswer(c, t)
    \/ \E c \in DOMAIN pc, t \in Unsolicited : PeerEvent(c, t)
    \/ \E c \in DOMAIN pc : PeerDrop(c)

SpecLive ==
    /\ Init
    /\ [][NextLive]_vars
    /\ \A c \in LiveCalls : WF_vars(Client(c)) /\ WF_vars(PeerResponds(c))

(***************************************************************************)
(* Vocabulary of the properties.  got[c][k] is the frame ws.recv returned  *)
(* after the k-th command was sent; its re field is the number of the      *)
(* command the peer wrote it in answer to (0: in answer to none).          *)
(***************************************************************************)
Calls == DOMAIN pc

MethodOf(c, k) == sent[c][k].v.m["method"].s

IsObject(text) == text.form = "json" /\ text.v.t = "dict"

IsSuccessEnvelope(text) ==
    /\ IsObject(text)
    /\ Get(text.v, "type") = Str("success")
    /\ "result" \in DOMAIN text.v.m

IsErrorEnvelope(text) ==
    /\ IsObject(text)
    /\ Get(text.v, "type") = Str("error")
    /\ {"error", "message"} \subseteq DOMAIN text.v.m

ResultOf(text) == text.v.m["result"]

(* A Success envelope whose result carries a non-empty session identifier. *)
CarriesSession(text) ==
    /\ IsSuccessEnvelope(text)
    /\ ResultOf(text).t = "dict"
    /\ "sessionId" \in DOMAIN ResultOf(text).m
    /\ ResultOf(text).m["sessionId"].t = "str"
    /\ ResultOf(text).m["sessionId"].s # ""

(* The numbers of the commands of call c that carry the given method. *)
Sent(c, method) == { k \in 1..Len(sent[c]) : MethodOf(c, k) = method }

(* The numbers of the commands of call c whose reply has been taken. *)
Taken(c, method) == { k \in Sent(c, method) : k <= Len(got[c]) }

(* The peer wrote frame k of got[c] in answer to command k. *)
Own(c, k) == got[c][k].re = k

(* session.end was answered by a Success envelope the call accepts. *)
EndAccepted(c) ==
    \E k \in Taken(c, "session.end") :
        IsSuccessEnvelope(got[c][k].text) /\ ResultOf(got[c][k].text) # None

(* C1: when the peer answers the requested method with a Success envelope, *)
(* execute returns exactly the result of that envelope, an empty mapping   *)
(* included: whenever execute returns, and whenever session.end succeeds.  *)
C1_SuccessResultReturned ==
    \A c \in Calls : \A k \in Taken(c, args[c].method) :
        (pc[c] = "done" /\ Own(c, k) /\ IsSuccessEnvelope(got[c][k].text)) =>
            /\ result[c].k = "ret" => result[c].v = ResultOf(got[c][k].text)
            /\ EndAccepted(c) => result[c] = Ret(ResultOf(got[c][k].text))

C1_Witness ==
    \E c \in Calls : \E k \in Taken(c, args[c].method) :
        /\ pc[c] = "done"
        /\ Own(c, k)
        /\ got[c][k].text = json_dumps(Success(PyInt(1), Dict(EmptyMap)))
        /\ result[c] = Ret(Dict(EmptyMap))

(* C2: when the reply to the requested method is anything but a well-formed *)
(* Success envelope (an Error envelope, an unknown or missing type, a       *)
(* malformed frame), the peer writes nothing unasked and the session is     *)
(* ended successfully, execute returns None and does not raise.             *)
C2_AbsenceNeverRaises ==
    \A c \in Calls : \A k \in Taken(c, args[c].method) :
        (/\ pc[c] = "done"
         /\ strays[c] = 0
         /\ Own(c, k)
         /\ ~IsSuccessEnvelope(got[c][k].text)
         /\ EndAccepted(c)) => result[c] = Ret(None)

(* C3: the websocket a call opened is closed exactly once on every way out *)
(* of execute, and never more than once; a call that has ended holds no    *)
(* open connection.                                                        *)
C3_ClosedExactlyOnce ==
    \A c \in Calls :
        /\ closes[c] <= 1
        /\ pc[c] = "done" =>
              /\ ws[c] \in {"unopened", "closed"}
              /\ closes[c] = (IF trace[c] # <<>> THEN 1 ELSE 0)

C3_Witness ==
    \E c \in Calls :
        /\ pc[c] = "done"
        /\ result[c] = Raise("AssertionError")
        /\ Len(sent[c]) = 3
        /\ closes[c] = 1
        /\ ws[c] = "closed"

(* The peer answered every command with a Success envelope (session.new *)
(* with one carrying a session identifier), wrote nothing else and kept *)
(* the connection up.                                                   *)
AllAnsweredWithSuccess(c) ==
    /\ strays[c] = 0
    /\ peer[c] = "up"
    /\ got[c] # <<>>
    /\ CarriesSession(got[c][1].text)
    /\ \A k \in 1..Len(got[c]) : IsSuccessEnvelope(got[c][k].text)

Lifecycle(c) ==
    << Event("open", ""),
       Event("send", "session.new"), Event("recv", "session.new"),
       Event("send", args[c].method), Event("recv", args[c].method),
       Event("send", "session.end"), Event("recv", "session.end"),
       Event("close", "") >>

(* C4: in a call whose peer answers every command with Success, the events *)
(* are exactly: open, session.new sent and answered, the method sent and   *)
(* answered, session.end sent and answered, close; each once, in this      *)
(* order, and no other command is sent.                                    *)
C4_LifecycleOrder ==
    \A c \in Calls :
        /\ (pc[c] = "done" /\ AllAnsweredWithSuccess(c)) =>
              /\ trace[c] = Lifecycle(c)
              /\ [k \in 1..Len(sent[c]) |-> MethodOf(c, k)]
                     = <<"session.new", args[c].method, "session.end">>
        /\ AllAnsweredWithSuccess(c) =>
              trace[c] = SubSeq(Lifecycle(c), 1, Len(trace[c]))

C4_Witness ==
    \E c \in Calls :
        /\ pc[c] = "done"
        /\ AllAnsweredWithSuccess(c)
        /\ Len(got[c]) = 3
        /\ result[c].k = "ret"

(* C5: the requested method is sent only in an open session: as the second *)
(* command, after the reply taken for session.new was a Success envelope   *)
(* carrying a session identifier, and before session.end; once session.end *)
(* is sent no command follows it.                                          *)
C5_MethodOnlyWhileOpen ==
    \A c \in Calls :
        /\ \A k \in Sent(c, args[c].method) :
              /\ k = 2
              /\ MethodOf(c, 1) = "session.new"
              /\ CarriesSession(got[c][1].text)
        /\ \A k \in Sent(c, "session.end") : k = Len(sent[c])

C5_Witness ==
    \E c \in Calls :
        /\ Sent(c, args[c].method) = {2}
        /\ Sent(c, "session.end") = {3}
        /\ pc[c] = "done"

(* C6: at most one command is outstanding on a connection at any time, a *)
(* command is sent only when every earlier one has had one frame taken   *)
(* for it, and unless the peer dropped the connection the websocket is   *)
(* not closed while a command is unanswered.                             *)
C6_OneOutstanding ==
    \A c \in Calls :
        /\ Len(sent[c]) - Len(got[c]) \in {0, 1}
        /\ pc[c] \in {"enter_send", "call_send", "exit_send"} /\ peer[c] = "up" =>
              Len(got[c]) = Len(sent[c])
        /\ ws[c] = "closed" /\ peer[c] = "up" => Len(got[c]) = Len(sent[c])

C6_Witness ==
    \E c \in Calls :
        /\ ws[c] = "closed"
        /\ peer[c] = "up"
        /\ Len(sent[c]) = 3
        /\ Len(got[c]) = 3

(* C7: the frame decoded as the outcome of a command is the peer's answer *)
(* to that command, whatever else the peer writes on the connection.      *)
C7_OwnResponseDecoded ==
    \A c \in Calls : \A k \in 1..Len(got[c]) : Own(c, k)

(* C8, as claimed: the identifiers of the commands sent over one *)
(* connection are pairwise distinct.                             *)
C8_IdsPairwiseDistinct ==
    \A c \in Calls : \A i, j \in 1..Len(sent[c]) :
        i # j => CommandId(sent[c][i]) # CommandId(sent[c][j])

(* C8, amended: every command sent over one connection carries the fixed *)
(* identifier 1, so the identifiers never decrease but are not distinct; *)
(* no two commands with the same identifier are outstanding together.    *)
C8_IdsFixedOneInFlight ==
    \A c \in Calls :
        /\ \A i \in 1..Len(sent[c]) : CommandId(sent[c][i]) = PyInt(1)
        /\ \A i, j \in (Len(got[c]) + 1)..Len(sent[c]) :
              i # j => CommandId(sent[c][i]) # CommandId(sent[c][j])

C8_Witness ==
    \E c \in Calls :
        /\ Len(sent[c]) = 3
        /\ Len(got[c]) = 2
        /\ CommandId(sent[c][1]) = CommandId(sent[c][3])

(* C9: when the reply taken for session.new is not a Success envelope     *)
(* carrying a non-empty session identifier (an Error envelope, an absent  *)
(* or undiscriminated frame, a Success with an empty result or an empty   *)
(* identifier), execute raises, and neither the requested method nor      *)
(* session.end is sent.                                                   *)
C9_FailedCreationFatal ==
    \A c \in Calls :
        (got[c] # <<>> /\ ~CarriesSession(got[c][1].text)) =>
            /\ pc[c] \in {"ws_exit", "done"}
            /\ Len(sent[c]) = 1
            /\ pending[c].k = "raise"
            /\ pc[c] = "done" => result[c].k = "raise"

C9_Witness ==
    \E c \in Calls :
        /\ pc[c] = "done"
        /\ got[c] # <<>>
        /\ got[c][1].text = json_dumps(Success(PyInt(1), Dict(EmptyMap)))
        /\ result[c] = Raise("AssertionError")
        /\ Len(sent[c]) = 1

(* C10: when the reply taken for session.end is not a Success envelope, *)
(* execute raises, also when the requested method was answered with     *)
(* Success; a Success reply to session.end with an empty result lets    *)
(* execute return what the method produced.                             *)
C10_FailedTerminationFatal ==
    \A c \in Calls : \A k \in Taken(c, "session.end") :
        pc[c] = "done" =>
            /\ ~IsSuccessEnvelope(got[c][k].text) => result[c].k = "raise"
            /\ (/\ got[c][k].text = json_dumps(Success(PyInt(1), Dict(EmptyMap)))
                /\ k = 3
                /\ \/ IsSuccessEnvelope(got[c][2].text)
                   \/ IsErrorEnvelope(got[c][2].text)) => result[c].k = "ret"

C10_Witness ==
    \E c \in Calls : \E k \in Taken(c, "session.end") :
        /\ pc[c] = "done"
        /\ k = 3
        /\ IsSuccessEnvelope(got[c][2].text)
        /\ IsErrorEnvelope(got[c][k].text)
        /\ result[c] = Raise("AssertionError")

(* C11: when the connection is refused, execute raises a connection error *)
(* and sends no command: a call whose websocket never opened has sent     *)
(* nothing, taken nothing, and ends raising the refusal.                  *)
C11_RefusedSendsNothing ==
    \A c \in Calls :
        ws[c] = "unopened" =>
            /\ sent[c] = <<>>
            /\ got[c] = <<>>
            /\ trace[c] = <<>>
            /\ pc[c] \in {"start", "done"}
            /\ pc[c] = "done" => result[c] = Raise("ConnectionRefusedError")

C11_Witness ==
    \E c \in Calls :
        /\ pc[c] = "done"
        /\ ws[c] = "unopened"
        /\ result[c] = Raise("ConnectionRefusedError")
        /\ args[c].method = "browsingContext.navigate"

(* The place of the first event of the given kind in the trace of c, 0 *)
(* when there is none.                                                 *)
FirstAt(c, e) ==
    IF \E i \in 1..Len(trace[c]) : trace[c][i] = e
    THEN CHOOSE i \in 1..Len(trace[c]) :
             /\ trace[c][i] = e
             /\ \A j \in 1..(i - 1) : trace[c][j] # e
    ELSE 0

(* The call is past the method invocation of a session that was created. *)
LeftInvocation(c) ==
    /\ pc[c] \in {"exit_recv", "ws_exit", "done"}
    /\ got[c] # <<>>
    /\ CarriesSession(got[c][1].text)

(* C14: once session creation succeeded, session.end is sent exactly once *)
(* and before the close on every way out of the invocation that leaves    *)
(* the connection usable (a Success reply, an Error reply, an exception   *)
(* raised while decoding), and never more than once; after an Error reply *)
(* and an accepted session.end execute returns None.                      *)
C14_EndSentOnEveryPath ==
    \A c \in Calls :
        /\ Cardinality(Sent(c, "session.end")) <= 1
        /\ (LeftInvocation(c) /\ peer[c] = "up") =>
              /\ Cardinality(Sent(c, "session.end")) = 1
              /\ ws[c] = "closed" =>
                    FirstAt(c, Event("send", "session.end"))
                        < FirstAt(c, Event("close", ""))
        /\ (/\ pc[c] = "done"
            /\ strays[c] = 0
            /\ Len(got[c]) = 3
            /\ IsErrorEnvelope(got[c][2].text)
            /\ EndAccepted(c)) => result[c] = Ret(None)

C14_Witness ==
    \E c \in Calls :
        /\ pc[c] = "done"
        /\ peer[c] = "up"
        /\ LeftInvocation(c)
        /\ Len(got[c]) = 3
        /\ got[c][2].text = TextInvalid
        /\ result[c] = Raise("JSONDecodeError")
        /\ Sent(c, "session.end") = {3}

(* The parameters a command carries. *)
ParamsOf(c, k) == sent[c][k].v.m["params"]

(* C15: every command carries the identifier 1 whatever was sent before   *)
(* it, and its method and parameters as they were given: session.new with *)
(* its capabilities, the requested method with the caller's parameters    *)
(* (an empty mapping when none were given), session.end with none.        *)
C15_FixedIdVerbatim ==
    \A c \in Calls : \A k \in 1..Len(sent[c]) :
        /\ sent[c][k].form = "json"
        /\ DOMAIN sent[c][k].v.m = {"id", "method", "params"}
        /\ CommandId(sent[c][k]) = PyInt(1)
        /\ MethodOf(c, k) \in {"session.new", "session.end", args[c].method}
        /\ MethodOf(c, k) = "session.new" =>
              ParamsOf(c, k) = Dict([capabilities |-> Dict(EmptyMap)])
        /\ MethodOf(c, k) = "session.end" => ParamsOf(c, k) = Dict(EmptyMap)
        /\ MethodOf(c, k) = args[c].method =>
              ParamsOf(c, k) = (IF args[c].params = None THEN Dict(EmptyMap)
                                ELSE args[c].params)

C15_Witness ==
    \E c \in Calls :
        /\ Len(sent[c]) = 3
        /\ args[c].params = Dict([context |-> Str("abc"), url |-> Str("https://x")])
        /\ ParamsOf(c, 2) = args[c].params
        /\ CommandId(sent[c][3]) = PyInt(1)

(* C16: a call that has started ends, returned or raised, with its       *)
(* websocket closed (or never opened), as long as the peer answers each  *)
(* command or drops; and a call waits in ws.recv only while one command *)
(* of its own is unanswered.                                             *)
C16_Terminates ==
    \A c \in LiveCalls :
        /\ [](pc[c] \in {"enter_recv", "call_recv", "exit_recv"} =>
                 Len(sent[c]) = Len(got[c]) + 1)
        /\ (pc[c] # "start") ~>
               (pc[c] = "done" /\ result[c] # Running /\ ws[c] \in {"closed", "unopened"})

C16_Witness ==
    \E c \in LiveCalls :
        /\ pc[c] = "done"
        /\ peer[c] = "dropped"
        /\ result[c] = Raise("ConnectionClosed")
        /\ ws[c] = "closed"
        /\ Len(sent[c]) = Len(got[c]) + 1

(* The wrapper that made call c has returned or raised. *)
Returned(c) == wrap[c].op # "none" /\ wrap[c].out # Running

(* The frame taken for the wrapper's method: the peer's own answer to it. *)
MethodReply(c) == got[c][2].text

HasMethodReply(c) ==
    /\ Len(got[c]) >= 2
    /\ MethodOf(c, 2) = args[c].method
    /\ Own(c, 2)

(* C12: Tab.navigate and Tab.reload call execute exactly once; when the   *)
(* method is answered with Success they set the tab's url to the url of   *)
(* the result and return True; when execute returns None they return      *)
(* False and leave the tab's port, id and url as they were.               *)
C12_NavigateReload ==
    \A c \in Calls :
        (Returned(c) /\ wrap[c].op \in {"navigate", "reload"}) =>
            /\ wrap[c].executes = 1
            /\ (/\ HasMethodReply(c)
                /\ IsSuccessEnvelope(MethodReply(c))
                /\ EndAccepted(c)) =>
                  /\ wrap[c].out = Ret(PyBool(TRUE))
                  /\ (/\ ResultOf(MethodReply(c)).t = "dict"
                      /\ "url" \in DOMAIN ResultOf(MethodReply(c)).m) =>
                         wrap[c].tab.url = ResultOf(MethodReply(c)).m["url"]
            /\ result[c] = Ret(None) =>
                  /\ wrap[c].out = Ret(PyBool(FALSE))
                  /\ wrap[c].tab = wrap[c].before

(* What does hold of navigate, reload and create_tab: one execute call;   *)
(* port and id never change; a Success whose result carries a url sets    *)
(* the url and gives True; None from execute gives False and the same     *)
(* Tab; create_tab makes Tab(port, "ctx-1", "") of the context returned.  *)
NavigateReloadWithUrl ==
    \A c \in Calls :
        (Returned(c) /\ wrap[c].op \in {"navigate", "reload", "create_tab"}) =>
            /\ wrap[c].executes = 1
            /\ wrap[c].tab.port = wrap[c].before.port
            /\ wrap[c].tab.id = wrap[c].before.id
            /\ (/\ wrap[c].op \in {"navigate", "reload"}
                /\ result[c].k = "ret"
                /\ HasMethodReply(c)
                /\ IsSuccessEnvelope(MethodReply(c))
                /\ ResultOf(MethodReply(c)).t = "dict"
                /\ "url" \in DOMAIN ResultOf(MethodReply(c)).m) =>
                  /\ wrap[c].out = Ret(PyBool(TRUE))
                  /\ wrap[c].tab.url = ResultOf(MethodReply(c)).m["url"]
            /\ (wrap[c].op \in {"navigate", "reload"} /\ result[c] = Ret(None)) =>
                  /\ wrap[c].out = Ret(PyBool(FALSE))
                  /\ wrap[c].tab = wrap[c].before
            /\ (/\ wrap[c].op = "create_tab"
                /\ result[c] = Ret(Dict([context |-> Str("ctx-1")]))) =>
                  wrap[c].out = Ret(PyTab(PyInt(9222), Str("ctx-1"), Str("")))

(* The value a wrapper gives when it reports failure. *)
FailureValue(op) ==
    CASE op \in {"navigate", "reload", "close", "click_element", "focus_element"} ->
             PyBool(FALSE)
      [] op = "get_tabs" -> PyList(<<>>)
      [] OTHER -> None

(* C17: a wrapper reports success exactly when its method was answered   *)
(* with a Success envelope, whatever the payload: after a Success reply   *)
(* (and an accepted session.end) it returns and does not give its        *)
(* failure value; after an Error or empty reply it gives its failure     *)
(* value (False, None, or the empty list of get_tabs).                   *)
C17_SuccessIffSuccessEnvelope ==
    \A c \in Calls :
        (Returned(c) /\ HasMethodReply(c) /\ EndAccepted(c)) =>
            /\ (IsErrorEnvelope(MethodReply(c)) \/ MethodReply(c) = TextEmpty) =>
                   wrap[c].out = Ret(FailureValue(wrap[c].op))
            /\ (IsSuccessEnvelope(MethodReply(c)) /\ wrap[c].op # "get_tabs") =>
                   /\ wrap[c].out.k = "ret"
                   /\ wrap[c].out.v # FailureValue(wrap[c].op)

(* What call c's own thread reads and writes. *)
ClientState(c) ==
    <<pc[c], args[c], ws[c], sent[c], got[c], pending[c], result[c], closes[c],
      log[c], trace[c]>>

(* What the peer keeps for call c's connection. *)
ConnectionState(c) == <<peer[c], inbox[c], answered[c], strays[c]>>

(* C13: under any interleaving of two execute calls each call has its    *)
(* own connection and session; a frame the peer wrote on one call's      *)
(* connection is taken by that call only; a step of one call leaves the  *)
(* other call and its connection as they were; and the outcome of a call *)
(* is the one its own inputs and its own frames give it.                 *)
C13_Isolated ==
    /\ [](\A c \in PairCalls :
              /\ Len(sent[c]) >= 1 => MethodOf(c, 1) = "session.new"
              /\ closes[c] <= 1
              /\ \A d \in PairCalls :
                     (/\ pc[c] = "done" /\ pc[d] = "done"
                      /\ args[c] = args[d]
                      /\ got[c] = got[d]
                      /\ trace[c] = trace[d]) => result[c] = result[d])
    /\ [][\A c \in PairCalls :
              /\ got'[c] # got[c] =>
                     /\ inbox[c] # <<>>
                     /\ got'[c] = Append(got[c], Head(inbox[c]))
                     /\ inbox'[c] = Tail(inbox[c])
              /\ (inbox'[c] # inbox[c] /\ Len(inbox'[c]) < Len(inbox[c])) =>
                     got'[c] = Append(got[c], Head(inbox[c]))
              /\ (ClientState(c)' # ClientState(c)
                      \/ ConnectionState(c)' # ConnectionState(c)) =>
                     \A d \in PairCalls \ {c} :
                         /\ ClientState(d)' = ClientState(d)
                         /\ ConnectionState(d)' = ConnectionState(d)]_vars

C13_Witness ==
    /\ pc[1] = "call_recv" /\ pc[2] = "call_recv"
    /\ inbox[1] # <<>> /\ inbox[2] # <<>>
    /\ Head(inbox[1]).text # Head(inbox[2]).text
    /\ args[1].method # args[2].method

====
